---- MODULE Spec2Model ----
(***************************************************************************)
(* Model of maaz/final_script.py: the JIRA -> Azure blob -> Azure queue     *)
(* export job (fetch_jira_issues, upload_csv_to_azure,                      *)
(* send_message_to_queue, process_issues).                                  *)
(*                                                                          *)
(* Text is modelled as a sequence of tokens (<<>> is the empty string), so  *)
(* that f-string formatting is concatenation.  A Python value that may be   *)
(* None is a sequence of length at most one (<<>> is None).  A (payload,    *)
(* status) pair is a record [payload, status]; a payload is a record with   *)
(* field error (an error dict), records (a list of issue dicts) or success  *)
(* (the archiver's success dict).                                           *)
(***************************************************************************)
EXTENDS Integers, Sequences, FiniteSets, TLC

VARIABLES
    fetchIn,    \* SpecExtract: the arguments and tracker behaviour of one fetch_jira_issues call
    fetchOut,   \* SpecExtract: what that call returned and the search it issued
    clock,      \* wall clock (datetime.now()), epoch seconds
    pc,         \* per run: position inside process_issues
    args,       \* per run: the arguments of process_issues
    tracker,    \* per run: how the tracker behaved for the run's search
    window,     \* per run: start_date / end_date computed at lines 170-173
    jira,       \* per run: (jira_issues, status_code) returned by fetch_jira_issues
    response,   \* per run: (response, status_code) returned by upload_csv_to_azure
    ret,        \* per run: the pair process_issues returned
    uploads,    \* per run: number of calls of upload_csv_to_azure
    sent,       \* per run: the messages passed to send_message_to_queue, in order
    blobs,      \* the blob container: blob name -> content
    queue       \* the storage queue: message bodies delivered, in order

vars == <<fetchIn, fetchOut, clock, pc, args, tracker, window, jira, response, ret,
          uploads, sent, blobs, queue>>

----------------------------------------------------------------------------
(* Bounds *)

MaxComments == 2
MaxHistories == 2
MaxIssues == 2
NumRuns == 2

----------------------------------------------------------------------------
(* Small helpers *)

Min(a, b) == IF a <= b THEN a ELSE b

SeqsUpTo(S, n) == UNION {[1..k -> S] : k \in 0..n}

RECURSIVE Flatten(_)
Flatten(ss) == IF ss = <<>> THEN <<>> ELSE Head(ss) \o Flatten(Tail(ss))

NL == "\n"

----------------------------------------------------------------------------
(* The tracker's data: tickets with comments and a changelog *)

CommentBodies == {<<>>, <<"b1">>, <<"b2", NL, "b3">>}

AuthorNames == {<<"Alice">>, <<"Bob">>}

\* history.created: a wall-clock reading with a UTC offset, or a string that
\* does not match "%Y-%m-%dT%H:%M:%S.%f%z"
CreatedValues ==
    { [fmt |-> "iso", wall |-> 7200, micros |-> 0,      off |-> 0],
      [fmt |-> "iso", wall |-> 7200, micros |-> 500000, off |-> 3600],
      [fmt |-> "bad", wall |-> 0,    micros |-> 0,      off |-> 0] }

StatusItem(to) == [field |-> "status", toString |-> to]
OtherItem(to) == [field |-> "assignee", toString |-> to]

ItemLists ==
    { <<>>,
      <<OtherItem("done")>>,
      <<StatusItem("Done")>>,
      <<StatusItem("In Progress")>>,
      <<OtherItem("done"), StatusItem("DONE")>>,
      <<OtherItem("Done"), StatusItem("In Progress")>>,
      <<StatusItem("In Progress"), StatusItem("done")>>,
      <<StatusItem("done"), StatusItem("In Progress")>> }

HistoryEntries ==
    [author : AuthorNames, created : CreatedValues, items : ItemLists]

MkIssue(s, d, c, h) ==
    [summary |-> s, description |-> d, comments |-> c, histories |-> h]

\* tickets that vary in summary, description and comments
CommentTickets ==
    { MkIssue(s, d, c, <<>>) :
        s \in {<<>>, << <<>> >>, << <<"s">> >>},
        d \in {<<>>, << <<"d">> >>},
        c \in SeqsUpTo(CommentBodies, MaxComments) }

\* tickets that vary in their changelog
HistoryTickets ==
    { MkIssue(<< <<"s">> >>, <<>>, <<>>, h) : h \in SeqsUpTo(HistoryEntries, MaxHistories) }

Tickets == CommentTickets \cup HistoryTickets

PlainTicket == MkIssue(<< <<"s">> >>, << <<"d">> >>, << <<"b1">> >>, <<>>)

ResolvedTicket ==
    MkIssue(<< <<"s">> >>, <<>>, <<>>,
            << [author |-> <<"Alice">>,
                created |-> [fmt |-> "iso", wall |-> 7200, micros |-> 0, off |-> 0],
                items |-> <<StatusItem("Done")>>] >>)

MalformedTicket ==
    MkIssue(<< <<"s">> >>, <<>>, <<>>,
            << [author |-> <<"Bob">>,
                created |-> [fmt |-> "bad", wall |-> 0, micros |-> 0, off |-> 0],
                items |-> <<StatusItem("done")>>] >>)

SampleTickets == {PlainTicket, ResolvedTicket, MalformedTicket}

----------------------------------------------------------------------------
(* fetch_jira_issues *)

\* str.lower() on the status names the tracker uses
Lower(s) ==
    CASE s = "Done" -> "done"
      [] s = "DONE" -> "done"
      [] s = "In Progress" -> "in progress"
      [] OTHER -> s

\* lines 89-96: the entries field
RECURSIVE EntriesFrom(_, _)
EntriesFrom(comments, i) ==
    IF comments = <<>> THEN <<>>
    ELSE <<"# Entry ", ToString(i), ": ">> \o Head(comments) \o <<NL>>
         \o EntriesFrom(Tail(comments), i + 1)

EnumerateStart == 1

\* a variant that separates the entries with newlines instead of ending each with one
ConcatenatedCommentsJoined(comments) ==
    IF Len(comments) > 0
    THEN SubSeq(EntriesFrom(comments, EnumerateStart), 1,
                Len(EntriesFrom(comments, EnumerateStart)) - 1)
    ELSE <<>>

ConcatenatedComments(comments) ==
    IF Len(comments) > 0 THEN EntriesFrom(comments, EnumerateStart) ELSE <<>>

\* lines 102-108: the inner loop; 0 when the entry has no status change
RECURSIVE FirstStatusIndex(_, _)
FirstStatusIndex(items, i) ==
    IF i > Len(items) THEN 0
    ELSE IF items[i].field = "status" THEN i
    ELSE FirstStatusIndex(items, i + 1)

NoResolution == [resolved_by |-> <<>>, found |-> FALSE, created |-> <<>>]

\* lines 104-107: what the first status change of an entry assigns
InspectStatusChange(history, item) ==
    IF Lower(item.toString) = "done"
    THEN [resolved_by |-> history.author, found |-> TRUE, created |-> <<history.created>>]
    ELSE NoResolution

\* a variant that keeps scanning until it meets a change to "done"
RECURSIVE ScanHistoriesUntilDone(_)
ScanHistoriesUntilDone(histories) ==
    IF histories = <<>> THEN NoResolution
    ELSE LET history == Head(histories)
             done == {k \in 1..Len(history.items) :
                        /\ history.items[k].field = "status"
                        /\ Lower(history.items[k].toString) = "done"}
         IN  IF done # {}
             THEN InspectStatusChange(history,
                      history.items[CHOOSE k \in done : \A j \in done : k <= j])
             ELSE ScanHistoriesUntilDone(Tail(histories))

\* lines 98-110: the outer loop, which stops at the first entry holding a status change
RECURSIVE ScanHistories(_)
ScanHistories(histories) ==
    IF histories = <<>> THEN NoResolution
    ELSE LET history == Head(histories)
             k == FirstStatusIndex(history.items, 1)
         IN  IF k > 0 THEN InspectStatusChange(history, history.items[k])
             ELSE ScanHistories(Tail(histories))

\* datetime.strptime(s, "%Y-%m-%dT%H:%M:%S.%f%z") raises ValueError on a mismatch
StrptimeRaises(created) == created.fmt # "iso"

\* int(aware_datetime.timestamp()): the epoch second of the instant, microseconds dropped
EpochSeconds(created) == created.wall - created.off

\* lines 112-119
ResolvedTimestamp(scan) ==
    IF scan.created = <<>> THEN <<>> ELSE <<ToString(EpochSeconds(scan.created[1]))>>

OrEmpty(opt) == IF opt # <<>> /\ opt[1] # <<>> THEN opt[1] ELSE <<>>

\* lines 87-132: one iteration of the loop over the issues
IssueRaises(issue) ==
    LET scan == ScanHistories(issue.histories)
    IN  scan.created # <<>> /\ StrptimeRaises(scan.created[1])

IssueData(issue) ==
    LET scan == ScanHistories(issue.histories)
    IN  [channel_id |-> <<"jira">>,
         title |-> OrEmpty(issue.summary),
         original_summary |-> <<>>,
         description |-> OrEmpty(issue.description),
         entries |-> ConcatenatedComments(issue.comments),
         resolved_by |-> scan.resolved_by,
         resolved_timestamp |-> ResolvedTimestamp(scan)]

Pair(p, s) == [payload |-> p, status |-> s]

JiraLoginError == Pair([error |-> "Unable to login to JIRA"], 401)
NoTicketsError == Pair([error |-> "No tickets found"], 404)

MaxResultsCap == 100

\* a variant without the cap
SearchArgsUncapped(total_days, max_issues, now) ==
    [created_since_day |-> (now - total_days * 86400) \div 86400,
     maxResults |-> max_issues,
     expand |-> "changelog"]

\* lines 78-80: the search fetch_jira_issues issues
SearchArgs(total_days, max_issues, now) ==
    [created_since_day |-> (now - total_days * 86400) \div 86400,
     maxResults |-> Min(max_issues, MaxResultsCap),
     expand |-> "changelog"]

\* a variant without the zero-results check
NoIssuesUnchecked(issues) == FALSE

\* line 82
NoIssues(issues) == Len(issues) = 0

\* a variant that returns what was derived before the exception
DerivationFailurePartial(issues_data, k) == Pair([records |-> issues_data], 200)

\* lines 135-136: an exception raised while the records are derived
DerivationFailure(issues_data, k) == JiraLoginError

\* lines 85-134
RECURSIVE DeriveFrom(_, _, _)
DeriveFrom(issues, k, acc) ==
    IF k > Len(issues) THEN Pair([records |-> acc], 200)
    ELSE IF IssueRaises(issues[k]) THEN DerivationFailure(acc, k)
    ELSE DeriveFrom(issues, k + 1, Append(acc, IssueData(issues[k])))

\* lines 63-136.  t.kind is "auth_error" (JIRA(...) raises), "search_error"
\* (search_issues raises) or "ok" (search_issues returns t.issues)
FetchJiraIssues(t) ==
    IF t.kind # "ok" THEN JiraLoginError
    ELSE IF NoIssues(t.issues) THEN NoTicketsError
    ELSE DeriveFrom(t.issues, 1, <<>>)

\* the search the call issued: none when the client could not be constructed
IssuedSearch(t, total_days, max_issues, now) ==
    IF t.kind = "auth_error" THEN <<>>
    ELSE <<SearchArgs(total_days, max_issues, now)>>

----------------------------------------------------------------------------
(* upload_csv_to_azure *)

\* line 27
BaseFolder(business_id) == business_id \o <<"/interactions/incidents/jira">>

\* line 28
BlobName(business_id, agent_id, timestamp) ==
    BaseFolder(business_id) \o <<"/request-">> \o business_id \o <<"-">>
        \o agent_id \o <<"-">> \o timestamp \o <<".csv">>

\* lines 34-42
Columns ==
    <<"channel_id", "title", "original_summary", "description", "entries",
      "resolved_by", "resolved_timestamp">>

\* lines 32-48: the header row followed by one row per record
CsvContent(csv_data) ==
    << [c \in 1..Len(Columns) |-> <<Columns[c]>>] >>
        \o [i \in 1..Len(csv_data) |-> [c \in 1..Len(Columns) |-> csv_data[i][Columns[c]]]]

\* "Authentication" in str(e)
MentionsAuthentication(e) == e = "AuthenticationFailed"

\* a variant whose write is unconditional
UploadBlobUnconditional(store, name, content, overwrite, fault) ==
    IF fault # "none" THEN [raised |-> <<fault>>, store |-> store]
    ELSE [raised |-> <<>>,
          store |-> [n \in DOMAIN store \cup {name} |->
                        IF n = name THEN content ELSE store[n]]]

\* line 50: blob_client.upload_blob(content, overwrite=...) on a store whose
\* conditional write is atomic.  fault is a failure of the service itself
\* ("none" when it answers).  raised is the exception text, <<>> when none.
UploadBlob(store, name, content, overwrite, fault) ==
    IF fault # "none" THEN [raised |-> <<fault>>, store |-> store]
    ELSE IF name \in DOMAIN store /\ ~overwrite
         THEN [raised |-> <<"BlobAlreadyExists">>, store |-> store]
    ELSE [raised |-> <<>>,
          store |-> [n \in DOMAIN store \cup {name} |->
                        IF n = name THEN content ELSE store[n]]]

\* a variant that lets the upload replace an existing blob
OverwriteAllowed == TRUE

\* line 50
Overwrite == FALSE

\* lines 53-60
UploadError(e) ==
    Pair([error |-> IF MentionsAuthentication(e) THEN "Azure permissions issue"
                    ELSE "New file cannot be created in Azure"], 500)

\* lines 14-60: the pair returned and the store afterwards
UploadCsvToAzure(store, business_id, payload, timestamp, agent_id, fault) ==
    IF "records" \notin DOMAIN payload
    THEN [result |-> UploadError("TypeError"), store |-> store]
    ELSE LET put == UploadBlob(store, BlobName(business_id, agent_id, timestamp),
                               CsvContent(payload.records), Overwrite, fault)
         IN  IF put.raised # <<>>
             THEN [result |-> UploadError(put.raised[1]), store |-> put.store]
             ELSE [result |-> Pair([success |-> TRUE,
                                    base_folder |-> BaseFolder(business_id)], 200),
                   store |-> put.store]

----------------------------------------------------------------------------
(* send_message_to_queue *)

\* json.dumps(message): the members in insertion order
JsonDumps(message) ==
    << <<"interaction_types", message.interaction_types>>,
       <<"channels", message.channels>>,
       <<"org_id", message.org_id>>,
       <<"request_id", message.request_id>>,
       <<"request_mode", message.request_mode>>,
       <<"requested_features", message.requested_features>>,
       <<"start_date", message.start_date>>,
       <<"end_date", message.end_date>> >>

\* lines 139-156: the queue afterwards.  outcome is "ok", "config_error" (a
\* credential is missing or rejected) or "transport_error" (send_message raises)
SendMessageToQueue(q, message, outcome) ==
    IF outcome = "ok" THEN Append(q, JsonDumps(message)) ELSE q

----------------------------------------------------------------------------
(* process_issues *)

Runs == 1..NumRuns

Epoch0 == 1700000000

SecondsInADay == 86400

BusinessIds == {<<"T">>}
AgentIds == {<<"A">>, <<"A", "-", "1">>}
Timestamps == {<<"123">>, <<"1", "-", "123">>}

\* the invocations of the job; the pair of long identifiers is left out
ArgChoices ==
    { a \in [business_id : BusinessIds, agent_id : AgentIds, timestamp : Timestamps,
              total_days : {30}, max_issues : {50}] :
        Len(a.agent_id) = 1 \/ Len(a.timestamp) = 1 }

Trackers(issueLists) ==
    {[kind |-> "auth_error", issues |-> <<>>], [kind |-> "search_error", issues |-> <<>>]}
        \cup {[kind |-> "ok", issues |-> l] : l \in issueLists}

\* what the tracker answers to a run of the pipeline
PipelineIssueLists ==
    {<<>>, <<PlainTicket>>, <<ResolvedTicket, PlainTicket>>, <<PlainTicket, MalformedTicket>>}

PipelineTrackers == {t \in Trackers(PipelineIssueLists) : t.kind # "search_error"}

None == <<>>

\* lines 170-173
ExportWindow(total_days, now) ==
    [start_date |-> now - total_days * SecondsInADay, end_date |-> now]

\* a variant that stops on a login failure only
ExtractionFailedLoginOnly(status_code) == status_code = 401

\* line 179
ExtractionFailed(status_code) == status_code # 200

\* a variant that notifies whatever the archiver returned
ArchiveSucceededAlways(status_code) == TRUE

\* line 186
ArchiveSucceeded(status_code) == status_code = 200

\* lines 187-196
Message(a, w) ==
    [interaction_types |-> <<"incidents">>,
     channels |-> <<"jira">>,
     org_id |-> a.business_id,
     request_id |-> a.agent_id \o <<"-">> \o a.timestamp,
     request_mode |-> <<"historical">>,
     requested_features |-> <<"topic-classification">>,
     start_date |-> <<ToString(w.start_date)>>,
     end_date |-> <<ToString(w.end_date)>>]

\* a variant in which a failure of the notifier fails the run
ReturnAfterNotifyPropagating(resp, outcome) ==
    IF outcome = "ok" THEN resp
    ELSE Pair([error |-> "Unable to send the message"], 500)

\* line 198 after the notifier returned
ReturnAfterNotify(resp, outcome) == resp

\* lines 170-180: the window, the extraction and the early return
Fetch(r) ==
    /\ pc[r] = "idle"
    /\ \E a \in ArgChoices, t \in PipelineTrackers :
         LET res == FetchJiraIssues(t)
         IN  /\ args' = [args EXCEPT ![r] = <<a>>]
             /\ tracker' = [tracker EXCEPT ![r] = <<t>>]
             /\ window' = [window EXCEPT ![r] = <<ExportWindow(a.total_days, clock)>>]
             /\ jira' = [jira EXCEPT ![r] = <<res>>]
             /\ IF ExtractionFailed(res.status)
                THEN /\ ret' = [ret EXCEPT ![r] = <<res>>]
                     /\ pc' = [pc EXCEPT ![r] = "done"]
                ELSE /\ ret' = ret
                     /\ pc' = [pc EXCEPT ![r] = "archive"]
    /\ clock' = clock + 1
    /\ UNCHANGED <<fetchIn, fetchOut, response, uploads, sent, blobs, queue>>

\* lines 182-186, and line 198 when the archiver failed
Upload(r) ==
    /\ pc[r] = "archive"
    /\ \E fault \in {"none", "AuthenticationFailed", "ConnectionError"} :
         LET a == args[r][1]
             up == UploadCsvToAzure(blobs, a.business_id, jira[r][1].payload,
                                    a.timestamp, a.agent_id, fault)
         IN  /\ response' = [response EXCEPT ![r] = <<up.result>>]
             /\ blobs' = up.store
             /\ IF ArchiveSucceeded(up.result.status)
                THEN /\ ret' = ret
                     /\ pc' = [pc EXCEPT ![r] = "notify"]
                ELSE /\ ret' = [ret EXCEPT ![r] = <<up.result>>]
                     /\ pc' = [pc EXCEPT ![r] = "done"]
    /\ uploads' = [uploads EXCEPT ![r] = @ + 1]
    /\ UNCHANGED <<fetchIn, fetchOut, clock, args, tracker, window, jira, sent, queue>>

\* lines 187-198: the message, the notifier and the return
Notify(r) ==
    /\ pc[r] = "notify"
    /\ \E outcome \in {"ok", "config_error", "transport_error"} :
         LET message == Message(args[r][1], window[r][1])
         IN  /\ sent' = [sent EXCEPT ![r] = Append(@, message)]
             /\ queue' = SendMessageToQueue(queue, message, outcome)
             /\ ret' = [ret EXCEPT ![r] = <<ReturnAfterNotify(response[r][1], outcome)>>]
    /\ pc' = [pc EXCEPT ![r] = "done"]
    /\ UNCHANGED <<fetchIn, fetchOut, clock, args, tracker, window, jira, response,
                   uploads, blobs>>

Init ==
    /\ fetchIn = None
    /\ fetchOut = None
    /\ clock = Epoch0
    /\ pc = [r \in Runs |-> "idle"]
    /\ args = [r \in Runs |-> None]
    /\ tracker = [r \in Runs |-> None]
    /\ window = [r \in Runs |-> None]
    /\ jira = [r \in Runs |-> None]
    /\ response = [r \in Runs |-> None]
    /\ ret = [r \in Runs |-> None]
    /\ uploads = [r \in Runs |-> 0]
    /\ sent = [r \in Runs |-> <<>>]
    /\ blobs = <<>>
    /\ queue = <<>>

Next == \E r \in Runs : Fetch(r) \/ Upload(r) \/ Notify(r)

Spec == Init /\ [][Next]_vars

----------------------------------------------------------------------------
(* fetch_jira_issues on its own: one call, its inputs drawn from bounded sets *)

ExtractIssueLists ==
    {<<t>> : t \in Tickets} \cup SeqsUpTo(SampleTickets, MaxIssues)

MaxIssuesChoices == {0, 1, 50, 100, 101, 500}

ExtractInputs ==
    [tracker : Trackers(ExtractIssueLists), total_days : {30}, max_issues : {50},
     now : {Epoch0}]
    \cup [tracker : Trackers(SeqsUpTo({PlainTicket}, 1)), total_days : {1, 30},
          max_issues : MaxIssuesChoices, now : {Epoch0}]

InitExtract ==
    /\ fetchIn \in {<<in>> : in \in ExtractInputs}
    /\ fetchOut = None
    /\ clock = Epoch0
    /\ pc = [r \in Runs |-> "idle"]
    /\ args = [r \in Runs |-> None]
    /\ tracker = [r \in Runs |-> None]
    /\ window = [r \in Runs |-> None]
    /\ jira = [r \in Runs |-> None]
    /\ response = [r \in Runs |-> None]
    /\ ret = [r \in Runs |-> None]
    /\ uploads = [r \in Runs |-> 0]
    /\ sent = [r \in Runs |-> <<>>]
    /\ blobs = <<>>
    /\ queue = <<>>

\* the call fetch_jira_issues(jira_auth, total_days, max_issues)
Extract ==
    /\ fetchOut = None
    /\ fetchOut' = << [result |-> FetchJiraIssues(fetchIn[1].tracker),
                       search |-> IssuedSearch(fetchIn[1].tracker, fetchIn[1].total_days,
                                               fetchIn[1].max_issues, fetchIn[1].now)] >>
    /\ UNCHANGED <<fetchIn, clock, pc, args, tracker, window, jira, response, ret,
                   uploads, sent, blobs, queue>>

NextExtract == Extract

SpecExtract == InitExtract /\ [][NextExtract]_vars

----------------------------------------------------------------------------
(* Notation of the properties *)

Started(r) == pc[r] # "idle"
Done(r) == pc[r] = "done"
ArgsOf(r) == args[r][1]
JiraOf(r) == jira[r][1]
RespOf(r) == response[r][1]
RetOf(r) == ret[r][1]
PathOf(r) == BlobName(ArgsOf(r).business_id, ArgsOf(r).agent_id, ArgsOf(r).timestamp)
SameRequest(r1, r2) ==
    /\ ArgsOf(r1).business_id = ArgsOf(r2).business_id
    /\ ArgsOf(r1).agent_id = ArgsOf(r2).agent_id
    /\ ArgsOf(r1).timestamp = ArgsOf(r2).timestamp

Called == fetchOut # None
In == fetchIn[1]
Out == fetchOut[1]
Succeeded == Called /\ Out.result.status = 200

----------------------------------------------------------------------------
(* C1: when the extractor returns a status other than 200 (401 or 404), the  *)
(* run is over with no upload and no queue send attempted, and it returned   *)
(* exactly the extractor's pair.                                             *)
C1_ExtractionFailureShortCircuits ==
    \A r \in Runs :
        (Started(r) /\ JiraOf(r).status # 200) =>
            /\ JiraOf(r).status \in {401, 404}
            /\ Done(r)
            /\ uploads[r] = 0
            /\ response[r] = None
            /\ sent[r] = <<>>
            /\ RetOf(r) = JiraOf(r)

C1_Witness ==
    \E r1, r2 \in Runs :
        /\ Done(r1) /\ RetOf(r1) = NoTicketsError
        /\ Done(r2) /\ RetOf(r2) = JiraLoginError

(* C2: the queue send is attempted at most once per run, and exactly when    *)
(* the archiver returned 200; by then the run's blob is in the store, and    *)
(* the message carries request_id = agent_id-timestamp, org_id = the         *)
(* business id and the window computed when the run started.                 *)
C2_NotifyOnceIffArchived ==
    \A r \in Runs :
        /\ Len(sent[r]) <= 1
        /\ pc[r] \in {"idle", "archive", "notify"} => sent[r] = <<>>
        /\ Done(r) => (sent[r] # <<>> <=> (response[r] # None /\ RespOf(r).status = 200))
        /\ (response[r] # None /\ RespOf(r).status = 500) => sent[r] = <<>>
        /\ sent[r] # <<>> =>
            /\ PathOf(r) \in DOMAIN blobs
            /\ blobs[PathOf(r)] = CsvContent(JiraOf(r).payload.records)
            /\ sent[r][1].request_id = ArgsOf(r).agent_id \o <<"-">> \o ArgsOf(r).timestamp
            /\ sent[r][1].org_id = ArgsOf(r).business_id
            /\ sent[r][1].end_date = <<ToString(window[r][1].end_date)>>
            /\ sent[r][1].start_date =
                  <<ToString(window[r][1].end_date - ArgsOf(r).total_days * 86400)>>
            /\ window[r][1].end_date < clock

C2_Witness ==
    \E r1, r2 \in Runs :
        /\ Done(r1) /\ Len(sent[r1]) = 1 /\ RespOf(r1).status = 200
        /\ Done(r2) /\ sent[r2] = <<>> /\ response[r2] # None /\ RespOf(r2).status = 500
        /\ window[r1][1].end_date + 1 < clock

(* C3: once the extraction succeeded the run returns the archiver's pair     *)
(* unchanged: its error with 500, or its success payload with 200 whether    *)
(* the notifier delivered the message or failed.                             *)
C3_ReturnsArchiverPair ==
    \A r \in Runs :
        (Done(r) /\ JiraOf(r).status = 200) =>
            /\ response[r] # None
            /\ RetOf(r) = RespOf(r)
            /\ RetOf(r).status \in {200, 500}
            /\ RetOf(r).status = 500 => "error" \in DOMAIN RetOf(r).payload
            /\ RetOf(r).status = 200 =>
                  RetOf(r).payload =
                      [success |-> TRUE, base_folder |-> BaseFolder(ArgsOf(r).business_id)]

\* a run that archived, whose message never reached the queue, and returned 200
C3_Witness ==
    \E r \in Runs :
        /\ Done(r) /\ Len(sent[r]) = 1
        /\ \A i \in 1..Len(queue) : queue[i] # JsonDumps(sent[r][1])
        /\ RetOf(r).status = 200

(* C4: the archiver never overwrites.  An upload to a blob name that is      *)
(* taken returns 500 and leaves the store as it is, a blob once written      *)
(* keeps its content, and of two runs with the same blob name at most one    *)
(* is archived.                                                              *)
C4_Step ==
    /\ \A n \in DOMAIN blobs : n \in DOMAIN blobs' /\ blobs'[n] = blobs[n]
    /\ \A r \in Runs :
          (pc[r] = "archive" /\ pc'[r] # "archive" /\ PathOf(r) \in DOMAIN blobs) =>
              /\ response'[r][1].status = 500
              /\ "error" \in DOMAIN response'[r][1].payload
              /\ pc'[r] = "done"
              /\ blobs' = blobs

C4_NeverOverwrites ==
    /\ [][C4_Step]_vars
    /\ [](\A r1, r2 \in Runs :
            (r1 # r2 /\ response[r1] # None /\ response[r2] # None
                /\ PathOf(r1) = PathOf(r2)) =>
                ~(RespOf(r1).status = 200 /\ RespOf(r2).status = 200))

\* a run was refused a blob name that holds another run's different content
C4_Witness ==
    \E r \in Runs :
        /\ Done(r)
        /\ RetOf(r) = Pair([error |-> "New file cannot be created in Azure"], 500)
        /\ PathOf(r) \in DOMAIN blobs
        /\ blobs[PathOf(r)] # CsvContent(JiraOf(r).payload.records)

----------------------------------------------------------------------------
(* The earliest status change of a changelog, stated without the scan *)

HasStatusChange(history) ==
    \E j \in 1..Len(history.items) : history.items[j].field = "status"

Resolvable(histories) == \E i \in 1..Len(histories) : HasStatusChange(histories[i])

EarliestEntry(histories) ==
    histories[CHOOSE i \in 1..Len(histories) :
                 /\ HasStatusChange(histories[i])
                 /\ \A i2 \in 1..(i - 1) : ~HasStatusChange(histories[i2])]

EarliestChange(histories) ==
    LET items == EarliestEntry(histories).items
    IN  items[CHOOSE j \in 1..Len(items) :
                 /\ items[j].field = "status"
                 /\ \A j2 \in 1..(j - 1) : items[j2].field # "status"]

IsDone(s) == s \in {"done", "Done", "DONE"}

ResolvedAtFirst(histories) ==
    Resolvable(histories) /\ IsDone(EarliestChange(histories).toString)

Unparsable(issue) ==
    ResolvedAtFirst(issue.histories) /\ EarliestEntry(issue.histories).created.fmt = "bad"

(* C5: resolved_by and resolved_timestamp come from the earliest status      *)
(* change of the changelog only: the author and the epoch second of its      *)
(* entry when its new value is "done" in any letter case, two empty strings  *)
(* otherwise, a later change to "done" notwithstanding.                      *)
C5_ResolutionFromEarliestStatusChange ==
    Succeeded =>
        /\ Len(Out.result.payload.records) = Len(In.tracker.issues)
        /\ \A k \in 1..Len(In.tracker.issues) :
              LET hs == In.tracker.issues[k].histories
                  rec == Out.result.payload.records[k]
              IN  IF ResolvedAtFirst(hs)
                  THEN /\ rec.resolved_by = EarliestEntry(hs).author
                       /\ rec.resolved_timestamp =
                             <<ToString(EarliestEntry(hs).created.wall
                                            - EarliestEntry(hs).created.off)>>
                  ELSE /\ rec.resolved_by = <<>>
                       /\ rec.resolved_timestamp = <<>>

\* open -> in progress at t1, then in progress -> done at t2: both fields empty
C5_Witness ==
    /\ Succeeded
    /\ Len(In.tracker.issues) = 1
    /\ LET hs == In.tracker.issues[1].histories
       IN  /\ Len(hs) = 2
           /\ hs[1].items = <<StatusItem("In Progress")>>
           /\ hs[2].items = <<StatusItem("Done")>>
           /\ hs[2].created.fmt = "iso"
    /\ Out.result.payload.records[1].resolved_by = <<>>
    /\ Out.result.payload.records[1].resolved_timestamp = <<>>

(* C6: a search that finds no ticket yields ({"error": "No tickets found"},  *)
(* 404); the extractor never returns 200 with an empty list, the archiver    *)
(* is never called on empty input and no blob holds a header alone.          *)
C6_ZeroTicketsIsNotFound ==
    /\ \A r \in Runs :
          Started(r) =>
              /\ (tracker[r][1].kind = "ok" /\ tracker[r][1].issues = <<>>) =>
                    /\ JiraOf(r) = NoTicketsError
                    /\ Done(r) /\ RetOf(r) = NoTicketsError
              /\ JiraOf(r).status = 200 => JiraOf(r).payload.records # <<>>
              /\ uploads[r] > 0 =>
                    /\ "records" \in DOMAIN JiraOf(r).payload
                    /\ JiraOf(r).payload.records # <<>>
    /\ \A n \in DOMAIN blobs : Len(blobs[n]) > 1

C6_Witness ==
    \E r \in Runs :
        /\ Done(r)
        /\ tracker[r][1] = [kind |-> "ok", issues |-> <<>>]
        /\ RetOf(r) = NoTicketsError
        /\ uploads[r] = 0

----------------------------------------------------------------------------
(* The entries field, stated without the loop *)

RECURSIVE JoinWith(_, _)
JoinWith(ss, sep) ==
    IF ss = <<>> THEN <<>>
    ELSE IF Len(ss) = 1 THEN ss[1]
    ELSE ss[1] \o <<sep>> \o JoinWith(Tail(ss), sep)

EntryLabel(style, i) ==
    CASE style = "bare" -> <<"Entry ", ToString(i), ":">>
      [] style = "spaced" -> <<"Entry ", ToString(i), ": ">>
      [] style = "hash" -> <<"# Entry ", ToString(i), ": ">>

Labelled(style, comments) ==
    [i \in 1..Len(comments) |-> EntryLabel(style, i) \o comments[i]]

(* C7 as stated: entries is the comments in their order, each prefixed with  *)
(* its 1-based "Entry N:" label, joined by newlines (whatever the exact      *)
(* spelling of the label), and empty when there is no comment.               *)
C7_EntriesJoinedByNewlines ==
    Succeeded =>
        \A k \in 1..Len(In.tracker.issues) :
            \E style \in {"bare", "spaced", "hash"} :
                Out.result.payload.records[k].entries =
                    JoinWith(Labelled(style, In.tracker.issues[k].comments), NL)

(* C7 as amended: entries is the concatenation, in the comments' order, of   *)
(* "# Entry N: " + body + newline with N counted from 1, so every entry,     *)
(* the last one included, ends with a newline; empty when there is no        *)
(* comment.                                                                  *)
C7_EntriesEachEndedByNewline ==
    Succeeded =>
        \A k \in 1..Len(In.tracker.issues) :
            LET c == In.tracker.issues[k].comments
            IN  Out.result.payload.records[k].entries =
                    Flatten([i \in 1..Len(c) |->
                                <<"# Entry ", ToString(i), ": ">> \o c[i] \o <<NL>>])

C7_Witness ==
    /\ Succeeded
    /\ Len(In.tracker.issues) = 1
    /\ Len(In.tracker.issues[1].comments) = 2
    /\ In.tracker.issues[1].comments[1] # In.tracker.issues[1].comments[2]
    /\ Len(Out.result.payload.records[1].entries) > 2

(* C8: whatever raises inside fetch_jira_issues (the client construction,    *)
(* the search, the derivation of any ticket's record) the call returns       *)
(* ({"error": "Unable to login to JIRA"}, 401): no partial list, not 404,    *)
(* not 200.                                                                  *)
C8_AnyExtractorErrorIsLoginFailure ==
    Called =>
        ((\/ In.tracker.kind # "ok"
          \/ \E k \in 1..Len(In.tracker.issues) : Unparsable(In.tracker.issues[k]))
            => Out.result = JiraLoginError)

\* the second ticket raises after the first one was derived
C8_Witness ==
    /\ Called
    /\ In.tracker.kind = "ok"
    /\ Len(In.tracker.issues) = 2
    /\ ~Unparsable(In.tracker.issues[1])
    /\ Unparsable(In.tracker.issues[2])
    /\ Out.result = JiraLoginError

(* C9: the search is issued with maxResults = min(max_issues, 100): never    *)
(* more than 100, and max_issues itself when that is at most 100.            *)
C9_MaxResultsCapped ==
    (Called /\ Out.search # <<>>) =>
        /\ Out.search[1].maxResults <= 100
        /\ In.max_issues <= 100 => Out.search[1].maxResults = In.max_issues
        /\ In.max_issues > 100 => Out.search[1].maxResults = 100

C9_Witness ==
    /\ Called
    /\ In.max_issues = 500
    /\ Out.search # <<>>
    /\ Out.search[1].maxResults = 100

(* C10: of two runs with the same tenant, agent id and timestamp, however    *)
(* their steps interleave, at most one returns 200 and at most one message   *)
(* with their request_id is sent; the run that loses the blob name gets      *)
(* the archiver's 500 failure and sends nothing.                             *)
C10_ConcurrentRunsCollide ==
    \A r1, r2 \in Runs :
        (r1 # r2 /\ Started(r1) /\ Started(r2) /\ SameRequest(r1, r2)) =>
            /\ ~(ret[r1] # None /\ ret[r2] # None
                    /\ RetOf(r1).status = 200 /\ RetOf(r2).status = 200)
            /\ ~(sent[r1] # <<>> /\ sent[r2] # <<>>)
            /\ Cardinality({i \in 1..Len(queue) :
                    /\ queue[i][3][2] = ArgsOf(r1).business_id
                    /\ queue[i][4][2] =
                          ArgsOf(r1).agent_id \o <<"-">> \o ArgsOf(r1).timestamp}) <= 1
            /\ (response[r1] # None /\ RespOf(r1).status = 200 /\ Done(r2)
                    /\ JiraOf(r2).status = 200) =>
                  /\ RetOf(r2).status = 500
                  /\ RetOf(r2) = RespOf(r2)
                  /\ "error" \in DOMAIN RetOf(r2).payload
                  /\ sent[r2] = <<>>

\* r1 started first and is still about to notify when r2, started later with
\* the same identifiers, has already been refused the blob name
C10_Witness ==
    \E r1, r2 \in Runs :
        /\ r1 # r2 /\ Started(r1) /\ Started(r2) /\ SameRequest(r1, r2)
        /\ window[r1][1].end_date < window[r2][1].end_date
        /\ pc[r1] = "notify"
        /\ Done(r2)
        /\ RetOf(r2) = Pair([error |-> "New file cannot be created in Azure"], 500)

====
